---------------------------- MODULE Spec2Model ----------------------------
(***************************************************************************)
(* Scheduling policies and resource protocols of pa2.c: the eight          *)
(* schedulers (FIFO, SJF, STCF, RR, Priority, Priority+Aging, PCP, PIP),   *)
(* their acquire/release pairs, and the tick loop that calls them.         *)
(*                                                                         *)
(* Intrusive lists are sequences of pids, head first.  list_add puts an    *)
(* entry at the head, list_add_tail at the tail.  unsigned int fields are  *)
(* naturals; no run within the bounds comes near 2^32.                     *)
(***************************************************************************)
EXTENDS Naturals, Sequences, FiniteSets

\* ------------------------------------------------------------------ bounds
NProc == 3
NR_RESOURCES == 2
MAX_PRIO == 2
MaxLifespan == 2
MaxWork == 4          \* total lifespan of the processes of one run
MaxWorkLong == 6      \* the same, for the single-policy runs with more work

Procs == 1..NProc
Res == 0..(NR_RESOURCES - 1)
NULL == 0

Policies == {"fifo", "sjf", "stcf", "rr", "prio", "pa", "pcp", "pip"}

\* What a read of the first entry of an empty list can yield: list_first_entry
\* of an empty list is the list head itself taken for a process, so ->prio is
\* whatever word lies there.  Only equality with a priority is ever tested.
Garbage == 0..(MAX_PRIO + 1)

\* The words a read of list q's first entry can come from: any, when q is
\* empty; none is needed (0 stands in) when q has a first entry.
GarbageOf(q) == IF q = <<>> THEN Garbage ELSE {0}

VARIABLES
    sched,        \* the active policy (fixed for the run)
    current,      \* extern struct process *current
    readyqueue,   \* extern struct list_head readyqueue
    owner,        \* resources[r].owner
    waitqueue,    \* resources[r].waitqueue
    rr_stack, prio_stack, pa_stack, pcp_stack, pip_stack,
    status, age, lifespan, prio, prio_orig,   \* struct process fields
    pc,           \* where the tick loop stands
    call,         \* the last call made and what it returned
    waited,       \* schedule() calls that have passed a ready process over
    owed          \* per process: who was ready when it was last picked and
                  \* has not been picked since

vars == <<sched, current, readyqueue, owner, waitqueue,
          rr_stack, prio_stack, pa_stack, pcp_stack, pip_stack,
          status, age, lifespan, prio, prio_orig, pc, call, waited, owed>>

stacks == <<rr_stack, prio_stack, pa_stack, pcp_stack, pip_stack>>
fields == <<age, lifespan, prio, prio_orig>>

\* ------------------------------------------------------------ list helpers
list_add(p, q) == <<p>> \o q
list_add_tail(p, q) == Append(q, p)
list_del(p, q) == SelectSeq(q, LAMBDA x : x # p)
list_empty(q) == q = <<>>
list_first_entry(q) == Head(q)

Members(q) == {q[i] : i \in DOMAIN q}

RECURSIVE Sum(_, _)
Sum(f, n) == IF n = 0 THEN 0 ELSE f[n] + Sum(f, n - 1)

RECURSIVE Reverse(_)
Reverse(q) == IF q = <<>> THEN <<>> ELSE Append(Reverse(Tail(q)), Head(q))

\* list_for_each_entry_safe(pos, tmp, from) { list_del(pos); list_add(pos, to); }
\* every entry lands at the head of `to`, so `from` arrives reversed.
drain_add(from, to) == Reverse(from) \o to

\* the same loop with list_add_tail: `from` arrives in its own order.
drain_add_tail(from, to) == to \o from

\* ------------------------------------------------------------------- Init
Init ==
    /\ sched \in Policies
    /\ current = NULL
    /\ readyqueue = <<>>
    /\ owner = [r \in Res |-> NULL]
    /\ waitqueue = [r \in Res |-> <<>>]
    /\ rr_stack = <<>> /\ prio_stack = <<>> /\ pa_stack = <<>>
    /\ pcp_stack = <<>> /\ pip_stack = <<>>
    /\ status = [p \in Procs |-> "NONE"]
    /\ age = [p \in Procs |-> 0]
    /\ lifespan = [p \in Procs |-> 0]
    /\ prio = [p \in Procs |-> 0]
    /\ prio_orig = [p \in Procs |-> 0]
    /\ pc = "schedule"
    /\ call = [op |-> "init", rid |-> 0, pid |-> NULL, ret |-> 0]
    /\ waited = [p \in Procs |-> 0]
    /\ owed = [p \in Procs |-> {}]

\* ------------------------------------------------------- the tick loop
\* A process arrives: a fresh record, READY, at the tail of the readyqueue.
\* Records are handed out in pid order, and a run's workload is bounded by
\* the total lifespan of its processes.
Arrive(p, pr, life, budget) ==
    /\ pc = "schedule"
    /\ status[p] = "NONE"
    /\ \A q \in Procs : q < p => status[q] # "NONE"
    /\ Sum(lifespan, NProc) + life <= budget
    /\ status' = [status EXCEPT ![p] = "PROCESS_READY"]
    /\ age' = [age EXCEPT ![p] = 0]
    /\ lifespan' = [lifespan EXCEPT ![p] = life]
    /\ prio' = [prio EXCEPT ![p] = pr]
    /\ prio_orig' = [prio_orig EXCEPT ![p] = pr]
    /\ readyqueue' = list_add_tail(p, readyqueue)
    /\ call' = [op |-> "fork", rid |-> 0, pid |-> p, ret |-> 0]
    /\ UNCHANGED <<sched, current, owner, waitqueue, stacks, pc, waited, owed>>

Fork(p, pr, life) == Arrive(p, pr, life, MaxWork)

\* The record of a retired process is used again for a new arrival, so that
\* arrivals need never end; the bound is on the lifespans of the processes
\* alive at once.
LiveWork == Sum([q \in Procs |-> IF status[q] \in {"NONE", "PROCESS_EXIT"}
                                   THEN 0 ELSE lifespan[q]], NProc)

Respawn(p, pr, life) ==
    /\ pc = "schedule"
    /\ status[p] = "PROCESS_EXIT"
    /\ LiveWork + life <= MaxWork
    /\ status' = [status EXCEPT ![p] = "PROCESS_READY"]
    /\ age' = [age EXCEPT ![p] = 0]
    /\ lifespan' = [lifespan EXCEPT ![p] = life]
    /\ prio' = [prio EXCEPT ![p] = pr]
    /\ prio_orig' = [prio_orig EXCEPT ![p] = pr]
    /\ readyqueue' = list_add_tail(p, readyqueue)
    /\ call' = [op |-> "fork", rid |-> 0, pid |-> p, ret |-> 0]
    /\ UNCHANGED <<sched, current, owner, waitqueue, stacks, pc, waited, owed>>

StackMembers == Members(rr_stack) \cup Members(prio_stack) \cup Members(pa_stack)
                \cup Members(pcp_stack) \cup Members(pip_stack)

\* What the loop does with schedule()'s answer: the previous process goes
\* RUNNING -> READY, is retired when age == lifespan, and the answer becomes
\* current and RUNNING.  A process that was ready when schedule() was called
\* and was not picked has waited one call more.  Under round-robin the
\* loop's record of turns is kept: the process picked now owes a turn to
\* everyone who is in the readyqueue or on rr_stack at the pick (the lists as
\* rr_schedule leaves them, the preempted process on rr_stack), and everyone
\* else is no longer owed a turn by it.  Under the Priority policy the
\* process picked owes a turn to the waiting processes of its own priority,
\* and the record starts afresh when the process that ran has blocked or
\* finished.
Dispatch(next) ==
    LET prev == current
        s1 == IF prev # NULL /\ status[prev] = "PROCESS_RUNNING"
                THEN [status EXCEPT ![prev] = "PROCESS_READY"] ELSE status
        s2 == IF prev # NULL /\ age[prev] = lifespan[prev]
                THEN [s1 EXCEPT ![prev] = "PROCESS_EXIT"] ELSE s1
    IN  /\ current' = next
        /\ status' = IF next # NULL THEN [s2 EXCEPT ![next] = "PROCESS_RUNNING"] ELSE s2
        /\ pc' = IF next # NULL THEN "acquire" ELSE "schedule"
        /\ call' = [op |-> "schedule", rid |-> 0, pid |-> prev, ret |-> next]
        /\ waited' = [p \in Procs |->
                        IF p # next /\ p \in Members(readyqueue) \cup StackMembers
                          THEN waited[p] + 1 ELSE 0]
        /\ owed' = CASE sched = "rr" /\ next # NULL ->
                           [p \in Procs |->
                              IF p = next
                                THEN Members(readyqueue') \cup Members(rr_stack')
                                ELSE owed[p] \ {next}]
                      [] sched = "prio" ->
                           LET base == IF prev # NULL
                                          /\ (status[prev] = "PROCESS_BLOCKED"
                                              \/ age[prev] = lifespan[prev])
                                         THEN [p \in Procs |-> {}] ELSE owed
                           IN  [p \in Procs |->
                                  IF p = next
                                    THEN {q \in Members(readyqueue')
                                                \cup Members(prio_stack') :
                                            prio[q] = prio[next]}
                                    ELSE base[p] \ {next}]
                      [] OTHER -> owed

\* The current process makes progress for one tick.
Run ==
    /\ pc = "acquire"
    /\ age' = [age EXCEPT ![current] = @ + 1]
    /\ pc' = "release"
    /\ call' = [op |-> "run", rid |-> 0, pid |-> current, ret |-> 0]
    /\ UNCHANGED <<sched, waited, owed, current, readyqueue, owner, waitqueue, stacks,
                   status, lifespan, prio, prio_orig>>

\* End of the tick.  A process gives back what it holds before it completes.
EndTick ==
    /\ pc = "release"
    /\ age[current] = lifespan[current] => \A r \in Res : owner[r] # current
    /\ pc' = "schedule"
    /\ call' = [op |-> "end", rid |-> 0, pid |-> current, ret |-> 0]
    /\ UNCHANGED <<sched, waited, owed, current, readyqueue, owner, waitqueue, stacks,
                   status, age, lifespan, prio, prio_orig>>

\* The running process asks for a resource before it makes progress in a
\* tick; it does not ask for one it holds.
CanAcquire(r) == pc = "acquire" /\ owner[r] # current

\* The running process gives back a resource it holds after it has aged.
CanRelease(r) == pc = "release" /\ owner[r] = current

\* What the loop does with acquire()'s answer.
AfterAcquire(r, ok) ==
    /\ pc' = IF ok THEN "acquire" ELSE "schedule"
    /\ call' = [op |-> "acquire", rid |-> r, pid |-> current, ret |-> IF ok THEN 1 ELSE 0]

AfterRelease(r) ==
    /\ pc' = "release"
    /\ call' = [op |-> "release", rid |-> r, pid |-> current, ret |-> 0]

\* ------------------------------------------------- FCFS acquire / release
\* fcfs_acquire with list_add for list_add_tail: the caller jumps the queue.
fcfs_acquire_lifo(r) ==
    /\ CanAcquire(r)
    /\ sched \in {"fifo", "sjf", "stcf", "rr"}
    /\ IF owner[r] = NULL
         THEN /\ owner' = [owner EXCEPT ![r] = current]
              /\ AfterAcquire(r, TRUE)
              /\ UNCHANGED <<status, waitqueue>>
         ELSE /\ status' = [status EXCEPT ![current] = "PROCESS_BLOCKED"]
              /\ waitqueue' = [waitqueue EXCEPT ![r] = list_add(current, @)]
              /\ AfterAcquire(r, FALSE)
              /\ UNCHANGED owner
    /\ UNCHANGED <<sched, waited, owed, current, readyqueue, stacks, fields>>

fcfs_acquire(r) ==
    /\ CanAcquire(r)
    /\ sched \in {"fifo", "sjf", "stcf", "rr"}
    /\ IF owner[r] = NULL
         THEN /\ owner' = [owner EXCEPT ![r] = current]
              /\ AfterAcquire(r, TRUE)
              /\ UNCHANGED <<status, waitqueue>>
         ELSE /\ status' = [status EXCEPT ![current] = "PROCESS_BLOCKED"]
              /\ waitqueue' = [waitqueue EXCEPT ![r] = list_add_tail(current, @)]
              /\ AfterAcquire(r, FALSE)
              /\ UNCHANGED owner
    /\ UNCHANGED <<sched, waited, owed, current, readyqueue, stacks, fields>>

\* Wake with list_add for list_add_tail: the waiter goes to the front.
Wake_front(r, waiter) ==
    /\ waitqueue' = [waitqueue EXCEPT ![r] = list_del(waiter, @)]
    /\ status' = [status EXCEPT ![waiter] = "PROCESS_READY"]
    /\ readyqueue' = list_add(waiter, readyqueue)

\* Wake one waiter: off the wait queue, READY, to the readyqueue's tail.
Wake(r, waiter) ==
    /\ waitqueue' = [waitqueue EXCEPT ![r] = list_del(waiter, @)]
    /\ status' = [status EXCEPT ![waiter] = "PROCESS_READY"]
    /\ readyqueue' = list_add_tail(waiter, readyqueue)

\* fcfs_release that wakes the waiter that blocked last.
fcfs_release_last(r) ==
    /\ CanRelease(r)
    /\ sched \in {"fifo", "sjf", "stcf", "rr"}
    /\ owner' = [owner EXCEPT ![r] = NULL]
    /\ IF ~list_empty(waitqueue[r])
         THEN Wake(r, waitqueue[r][Len(waitqueue[r])])
         ELSE UNCHANGED <<waitqueue, status, readyqueue>>
    /\ AfterRelease(r)
    /\ UNCHANGED <<sched, waited, owed, current, stacks, fields>>

fcfs_release(r) ==
    /\ CanRelease(r)
    /\ sched \in {"fifo", "sjf", "stcf", "rr"}
    /\ owner' = [owner EXCEPT ![r] = NULL]
    /\ IF ~list_empty(waitqueue[r])
         THEN Wake(r, list_first_entry(waitqueue[r]))
         ELSE UNCHANGED <<waitqueue, status, readyqueue>>
    /\ AfterRelease(r)
    /\ UNCHANGED <<sched, waited, owed, current, stacks, fields>>

\* ------------------------------------------------------------ schedulers
\* !current || current->status == PROCESS_BLOCKED
SkipCurrent == current = NULL \/ status[current] = "PROCESS_BLOCKED"

\* The schedule functions are computed as operators giving the process
\* picked and the lists as they leave them; the actions install the result.
Result(next, rq, stk) == [next |-> next, rq |-> rq, stk |-> stk]

fifo_pick ==
    IF ~SkipCurrent /\ age[current] < lifespan[current]
      THEN Result(current, readyqueue, <<>>)
      ELSE IF ~list_empty(readyqueue)
             THEN Result(list_first_entry(readyqueue), Tail(readyqueue), <<>>)
             ELSE Result(NULL, readyqueue, <<>>)

fifo_schedule ==
    /\ pc = "schedule"
    /\ sched = "fifo"
    /\ readyqueue' = fifo_pick.rq
    /\ Dispatch(fifo_pick.next)
    /\ UNCHANGED <<sched, owner, waitqueue, stacks, fields>>

\* First entry of q with the least key[.] (a later entry replaces the
\* candidate only when strictly smaller); key is a function on processes.
RECURSIVE ScanMin(_, _, _)
ScanMin(q, best, key) ==
    IF q = <<>> THEN best
    ELSE ScanMin(Tail(q), IF key[Head(q)] < key[best] THEN Head(q) ELSE best, key)

\* First entry of q with the greatest key.
RECURSIVE ScanMax(_, _, _)
ScanMax(q, best, key) ==
    IF q = <<>> THEN best
    ELSE ScanMax(Tail(q), IF key[Head(q)] > key[best] THEN Head(q) ELSE best, key)

\* sjf_schedule with <= for < in the scan: the last entry of least lifespan.
sjf_pick_last ==
    IF ~SkipCurrent /\ age[current] < lifespan[current]
      THEN Result(current, readyqueue, <<>>)
      ELSE IF ~list_empty(readyqueue)
             THEN LET rev == Reverse(readyqueue)
                      next == ScanMin(Tail(rev), Head(rev), lifespan)
                  IN  Result(next, list_del(next, readyqueue), <<>>)
             ELSE Result(NULL, readyqueue, <<>>)

sjf_pick ==
    IF ~SkipCurrent /\ age[current] < lifespan[current]
      THEN Result(current, readyqueue, <<>>)
      ELSE IF ~list_empty(readyqueue)
             THEN LET next == ScanMin(Tail(readyqueue), Head(readyqueue),
                                      lifespan)
                  IN  Result(next, list_del(next, readyqueue), <<>>)
             ELSE Result(NULL, readyqueue, <<>>)

sjf_schedule ==
    /\ pc = "schedule"
    /\ sched = "sjf"
    /\ readyqueue' = sjf_pick.rq
    /\ Dispatch(sjf_pick.next)
    /\ UNCHANGED <<sched, owner, waitqueue, stacks, fields>>

remain_time(p) == lifespan[p] - age[p]
remain == [p \in Procs |-> remain_time(p)]

\* list_first_entry of an empty list: the list head taken for an entry.
\* It is no process, so it compares unequal to every process pointer.
LIST_HEAD_ENTRY == NProc + 1

get_shortest(rq) ==
    IF list_empty(rq) THEN LIST_HEAD_ENTRY
    ELSE ScanMin(rq, list_first_entry(rq), remain)

\* stcf_schedule with list_add_tail for list_add: the preempted process goes
\* behind the readyqueue, so an equally short entry ahead of it wins the scan.
stcf_pick_tail ==
    LET pick_next(rq) ==
            IF ~list_empty(rq)
              THEN Result(get_shortest(rq), list_del(get_shortest(rq), rq), <<>>)
              ELSE Result(NULL, rq, <<>>)
    IN  IF ~SkipCurrent /\ age[current] < lifespan[current]
          THEN IF get_shortest(readyqueue) # current
                 THEN pick_next(list_add_tail(current, readyqueue))
                 ELSE Result(current, readyqueue, <<>>)
          ELSE pick_next(readyqueue)

stcf_pick ==
    LET pick_next(rq) ==
            IF ~list_empty(rq)
              THEN Result(get_shortest(rq), list_del(get_shortest(rq), rq), <<>>)
              ELSE Result(NULL, rq, <<>>)
    IN  IF ~SkipCurrent /\ age[current] < lifespan[current]
          THEN IF get_shortest(readyqueue) # current
                 THEN pick_next(list_add(current, readyqueue))
                 ELSE Result(current, readyqueue, <<>>)
          ELSE pick_next(readyqueue)

stcf_schedule ==
    /\ pc = "schedule"
    /\ sched = "stcf"
    /\ readyqueue' = stcf_pick.rq
    /\ Dispatch(stcf_pick.next)
    /\ UNCHANGED <<sched, owner, waitqueue, stacks, fields>>

\* rr_pick without the list_del_init of the entry picked from the readyqueue.
rr_pick_linked ==
    LET stk0 == IF ~SkipCurrent /\ age[current] < lifespan[current]
                   /\ remain_time(current) > 0
                  THEN list_add(current, rr_stack) ELSE rr_stack
    IN  IF ~(list_empty(readyqueue) /\ list_empty(stk0))
          THEN IF ~list_empty(readyqueue)
                 THEN Result(list_first_entry(readyqueue), readyqueue, stk0)
                 ELSE LET rq1 == drain_add(stk0, readyqueue)
                      IN  Result(list_first_entry(rq1), Tail(rq1), <<>>)
          ELSE Result(NULL, readyqueue, stk0)

\* rr_schedule without the drain: nothing is picked once the readyqueue is
\* empty, whatever rr_stack holds.
rr_pick_nodrain ==
    LET stk0 == IF ~SkipCurrent /\ age[current] < lifespan[current]
                   /\ remain_time(current) > 0
                  THEN list_add(current, rr_stack) ELSE rr_stack
    IN  IF ~list_empty(readyqueue)
          THEN Result(list_first_entry(readyqueue), Tail(readyqueue), stk0)
          ELSE Result(NULL, readyqueue, stk0)

rr_pick ==
    LET stk0 == IF ~SkipCurrent /\ age[current] < lifespan[current]
                   /\ remain_time(current) > 0
                  THEN list_add(current, rr_stack) ELSE rr_stack
    IN  IF ~(list_empty(readyqueue) /\ list_empty(stk0))
          THEN IF ~list_empty(readyqueue)
                 THEN Result(list_first_entry(readyqueue), Tail(readyqueue), stk0)
                 ELSE LET rq1 == drain_add(stk0, readyqueue)
                      IN  Result(list_first_entry(rq1), Tail(rq1), <<>>)
          ELSE Result(NULL, readyqueue, stk0)

rr_schedule ==
    /\ pc = "schedule"
    /\ sched = "rr"
    /\ readyqueue' = rr_pick.rq
    /\ rr_stack' = rr_pick.stk
    /\ Dispatch(rr_pick.next)
    /\ UNCHANGED <<sched, owner, waitqueue, prio_stack, pa_stack, pcp_stack,
                   pip_stack, fields>>

\* ------------------------------------------- priority acquire / release
prio_acquire(r) ==
    /\ CanAcquire(r)
    /\ sched \in {"prio", "pa"}
    /\ IF owner[r] = NULL
         THEN /\ owner' = [owner EXCEPT ![r] = current]
              /\ AfterAcquire(r, TRUE)
              /\ UNCHANGED <<status, waitqueue>>
         ELSE /\ status' = [status EXCEPT ![current] = "PROCESS_BLOCKED"]
              /\ waitqueue' = [waitqueue EXCEPT ![r] = list_add_tail(current, @)]
              /\ AfterAcquire(r, FALSE)
              /\ UNCHANGED owner
    /\ UNCHANGED <<sched, waited, owed, current, readyqueue, stacks, fields>>

\* get_highest_prio_wait that takes the head of the wait queue.
get_first_wait(wq, pr) == list_first_entry(wq)

\* First waiter of greatest priority in the wait queue wq (not empty).
get_highest_prio_wait(wq, pr) == ScanMax(wq, list_first_entry(wq), pr)

prio_release(r) ==
    /\ CanRelease(r)
    /\ sched \in {"prio", "pa"}
    /\ owner' = [owner EXCEPT ![r] = NULL]
    /\ IF ~list_empty(waitqueue[r])
         THEN Wake(r, get_highest_prio_wait(waitqueue[r], prio))
         ELSE UNCHANGED <<waitqueue, status, readyqueue>>
    /\ AfterRelease(r)
    /\ UNCHANGED <<sched, waited, owed, current, stacks, fields>>

\* ----------------------------------------------------- Priority scheduler
\* First readyqueue entry of greatest priority (rq not empty).
get_highest_prio(rq, pr) == ScanMax(rq, list_first_entry(rq), pr)

\* get_highest_prio()->prio: with an empty readyqueue the list head is read
\* as if it were a process, which yields the word g.
highest_prio_read(rq, pr, g) ==
    IF list_empty(rq) THEN g ELSE pr[get_highest_prio(rq, pr)]

\* Priority of the first entry of a policy's stack; g when the stack is empty.
get_stack_prio(stk, pr, g) == IF list_empty(stk) THEN g ELSE pr[list_first_entry(stk)]
get_pastack_prio(stk, pr, g) == IF list_empty(stk) THEN g ELSE pr[list_first_entry(stk)]
get_pcpstack_prio(stk, pr, g) == IF list_empty(stk) THEN g ELSE pr[list_first_entry(stk)]
get_pipstack_prio(stk, pr, g) == IF list_empty(stk) THEN g ELSE pr[list_first_entry(stk)]

\* prio_schedule that parks the current process with list_add_tail: the
\* drain then brings back first the process that ran last.
prio_pick_tailpush(g1, g2) ==
    LET pick_next(rq, stk) ==
            IF ~(list_empty(rq) /\ list_empty(stk))
              THEN LET rq1 == IF list_empty(rq) THEN drain_add(stk, rq) ELSE rq
                       stk1 == IF list_empty(rq) THEN <<>> ELSE stk
                       n1 == get_highest_prio(rq1, prio)
                       rq2 == list_del(n1, rq1)
                   IN  IF ~list_empty(stk1) /\ get_stack_prio(stk1, prio, 0) # prio[n1]
                         THEN LET rq3 == list_add(n1, drain_add(stk1, rq2))
                                  n2 == get_highest_prio(rq3, prio)
                              IN  Result(n2, list_del(n2, rq3), <<>>)
                         ELSE Result(n1, rq2, stk1)
              ELSE Result(NULL, rq, stk)
    IN  IF ~SkipCurrent /\ age[current] < lifespan[current]
          THEN IF highest_prio_read(readyqueue, prio, g1) = prio[current]
                 THEN IF list_empty(readyqueue) /\ list_empty(prio_stack)
                        THEN Result(current, readyqueue, prio_stack)
                        ELSE pick_next(readyqueue, list_add_tail(current, prio_stack))
                 ELSE IF get_stack_prio(prio_stack, prio, g2) = prio[current]
                        THEN pick_next(readyqueue, list_add_tail(current, prio_stack))
                        ELSE pick_next(list_add(current, readyqueue), prio_stack)
          ELSE pick_next(readyqueue, prio_stack)

prio_pick(g1, g2) ==
    LET pick_next(rq, stk) ==
            IF ~(list_empty(rq) /\ list_empty(stk))
              THEN LET rq1 == IF list_empty(rq) THEN drain_add(stk, rq) ELSE rq
                       stk1 == IF list_empty(rq) THEN <<>> ELSE stk
                       n1 == get_highest_prio(rq1, prio)
                       rq2 == list_del(n1, rq1)
                   IN  IF ~list_empty(stk1) /\ get_stack_prio(stk1, prio, 0) # prio[n1]
                         THEN LET rq3 == list_add(n1, drain_add(stk1, rq2))
                                  n2 == get_highest_prio(rq3, prio)
                              IN  Result(n2, list_del(n2, rq3), <<>>)
                         ELSE Result(n1, rq2, stk1)
              ELSE Result(NULL, rq, stk)
    IN  IF ~SkipCurrent /\ age[current] < lifespan[current]
          THEN IF highest_prio_read(readyqueue, prio, g1) = prio[current]
                 THEN IF list_empty(readyqueue) /\ list_empty(prio_stack)
                        THEN Result(current, readyqueue, prio_stack)
                        ELSE pick_next(readyqueue, list_add(current, prio_stack))
                 ELSE IF get_stack_prio(prio_stack, prio, g2) = prio[current]
                        THEN pick_next(readyqueue, list_add(current, prio_stack))
                        ELSE pick_next(list_add(current, readyqueue), prio_stack)
          ELSE pick_next(readyqueue, prio_stack)

prio_schedule ==
    /\ pc = "schedule"
    /\ sched = "prio"
    /\ \E g1 \in GarbageOf(readyqueue), g2 \in GarbageOf(prio_stack) :
          LET res == prio_pick(g1, g2)
          IN  /\ readyqueue' = res.rq
              /\ prio_stack' = res.stk
              /\ Dispatch(res.next)
    /\ UNCHANGED <<sched, owner, waitqueue, rr_stack, pa_stack, pcp_stack,
                   pip_stack, fields>>

\* ------------------------------------------------ Priority + aging
\* prio_reset that restores nothing.
prio_reset_none(pr, curr) == pr

prio_reset(pr, curr) == [pr EXCEPT ![curr] = prio_orig[curr]]

\* prio_boost that steps no priority.
boosted_none(v) == v

\* tmp->prio++; if (tmp->prio == MAX_PRIO) tmp->prio = MAX_PRIO;
boosted(v) == IF v + 1 = MAX_PRIO THEN MAX_PRIO ELSE v + 1

\* No process is on both lists, so each listed process is stepped once.
prio_boost(pr) ==
    [p \in Procs |-> IF p \in Members(readyqueue) \cup Members(pa_stack)
                       THEN boosted(pr[p]) ELSE pr[p]]

\* The priorities pa_schedule works with, after its opening reset and boost.
pa_prio == IF current # NULL THEN prio_boost(prio_reset(prio, current)) ELSE prio

pa_pick(g1, g2) ==
    LET pr == pa_prio
        pick_next(rq, stk) ==
            IF ~(list_empty(rq) /\ list_empty(stk))
              THEN LET rq1 == IF list_empty(rq) THEN drain_add_tail(stk, rq) ELSE rq
                       stk1 == IF list_empty(rq) THEN <<>> ELSE stk
                       n1 == get_highest_prio(rq1, pr)
                       rq2 == list_del(n1, rq1)
                   IN  IF ~list_empty(stk1) /\ get_pastack_prio(stk1, pr, 0) # pr[n1]
                         THEN LET rq3 == list_add(n1, drain_add_tail(stk1, rq2))
                                  n2 == get_highest_prio(rq3, pr)
                              IN  Result(n2, list_del(n2, rq3), <<>>)
                         ELSE Result(n1, rq2, stk1)
              ELSE Result(NULL, rq, stk)
    IN  IF ~SkipCurrent /\ age[current] < lifespan[current]
          THEN IF highest_prio_read(readyqueue, pr, g1) = pr[current]
                 THEN IF list_empty(readyqueue) /\ list_empty(pa_stack)
                        THEN Result(current, readyqueue, pa_stack)
                        ELSE pick_next(readyqueue, list_add(current, pa_stack))
                 ELSE IF get_pastack_prio(pa_stack, pr, g2) = pr[current]
                        THEN pick_next(readyqueue, list_add(current, pa_stack))
                        ELSE pick_next(list_add_tail(current, readyqueue), pa_stack)
          ELSE pick_next(readyqueue, pa_stack)

pa_schedule ==
    /\ pc = "schedule"
    /\ sched = "pa"
    /\ prio' = pa_prio
    /\ \E g1 \in GarbageOf(readyqueue), g2 \in GarbageOf(pa_stack) :
          LET res == pa_pick(g1, g2)
          IN  /\ readyqueue' = res.rq
              /\ pa_stack' = res.stk
              /\ Dispatch(res.next)
    /\ UNCHANGED <<sched, owner, waitqueue, rr_stack, prio_stack, pcp_stack,
                   pip_stack, age, lifespan, prio_orig>>

\* ------------------------------------------------ Priority ceiling (PCP)
pcp_acquire(r) ==
    /\ CanAcquire(r)
    /\ sched = "pcp"
    /\ IF owner[r] = NULL
         THEN /\ owner' = [owner EXCEPT ![r] = current]
              /\ prio' = [prio EXCEPT ![current] = MAX_PRIO]
              /\ AfterAcquire(r, TRUE)
              /\ UNCHANGED <<status, waitqueue>>
         ELSE /\ status' = [status EXCEPT ![current] = "PROCESS_BLOCKED"]
              /\ waitqueue' = [waitqueue EXCEPT ![r] = list_add_tail(current, @)]
              /\ AfterAcquire(r, FALSE)
              /\ UNCHANGED <<owner, prio>>
    /\ UNCHANGED <<sched, waited, owed, current, readyqueue, stacks, age, lifespan, prio_orig>>

\* pcp_release without the restore.
pcp_restored_not(r) == prio

\* r->owner->prio = current->prio_orig: the priority the releasing owner has
\* once release returns.
pcp_restored(r) == [prio EXCEPT ![owner[r]] = prio_orig[current]]

pcp_release(r) ==
    /\ CanRelease(r)
    /\ sched = "pcp"
    /\ prio' = pcp_restored(r)
    /\ owner' = [owner EXCEPT ![r] = NULL]
    /\ IF ~list_empty(waitqueue[r])
         THEN Wake(r, get_highest_prio_wait(waitqueue[r], pcp_restored(r)))
         ELSE UNCHANGED <<waitqueue, status, readyqueue>>
    /\ AfterRelease(r)
    /\ UNCHANGED <<sched, waited, owed, current, stacks, age, lifespan, prio_orig>>

pcp_pick(g1, g2) ==
    LET pick_next(rq, stk) ==
            IF ~(list_empty(rq) /\ list_empty(stk))
              THEN LET rq1 == IF list_empty(rq) THEN drain_add(stk, rq) ELSE rq
                       stk1 == IF list_empty(rq) THEN <<>> ELSE stk
                       n1 == get_highest_prio(rq1, prio)
                       rq2 == list_del(n1, rq1)
                   IN  IF ~list_empty(stk1) /\ get_pcpstack_prio(stk1, prio, 0) # prio[n1]
                         THEN LET rq3 == list_add(n1, drain_add(stk1, rq2))
                                  n2 == get_highest_prio(rq3, prio)
                              IN  Result(n2, list_del(n2, rq3), <<>>)
                         ELSE Result(n1, rq2, stk1)
              ELSE Result(NULL, rq, stk)
    IN  IF ~SkipCurrent /\ age[current] < lifespan[current]
          THEN IF highest_prio_read(readyqueue, prio, g1) = prio[current]
                 THEN IF list_empty(readyqueue) /\ list_empty(pcp_stack)
                        THEN Result(current, readyqueue, pcp_stack)
                        ELSE pick_next(readyqueue, list_add(current, pcp_stack))
                 ELSE IF get_pcpstack_prio(pcp_stack, prio, g2) = prio[current]
                        THEN pick_next(readyqueue, list_add(current, pcp_stack))
                        ELSE pick_next(list_add_tail(current, readyqueue), pcp_stack)
          ELSE pick_next(readyqueue, pcp_stack)

pcp_schedule ==
    /\ pc = "schedule"
    /\ sched = "pcp"
    /\ \E g1 \in GarbageOf(readyqueue), g2 \in GarbageOf(pcp_stack) :
          LET res == pcp_pick(g1, g2)
          IN  /\ readyqueue' = res.rq
              /\ pcp_stack' = res.stk
              /\ Dispatch(res.next)
    /\ UNCHANGED <<sched, owner, waitqueue, rr_stack, prio_stack, pa_stack,
                   pip_stack, fields>>

\* --------------------------------------------- Priority inheritance (PIP)
\* pip_acquire that tests the caller against the first waiter only.
pip_inherit_first(r, wq) ==
    IF prio[current] = prio[list_first_entry(wq)]
      THEN [prio EXCEPT ![owner[r]] = prio[current]]
      ELSE prio

\* The owner's priority once a failed pip_acquire(r) returns; wq is r's wait
\* queue with the caller already at its tail.
pip_inherit(r, wq) ==
    IF prio[current] = prio[get_highest_prio_wait(wq, prio)]
      THEN [prio EXCEPT ![owner[r]] = prio[current]]
      ELSE prio

pip_acquire(r) ==
    /\ CanAcquire(r)
    /\ sched = "pip"
    /\ IF owner[r] = NULL
         THEN /\ owner' = [owner EXCEPT ![r] = current]
              /\ AfterAcquire(r, TRUE)
              /\ UNCHANGED <<status, waitqueue, prio>>
         ELSE /\ status' = [status EXCEPT ![current] = "PROCESS_BLOCKED"]
              /\ waitqueue' = [waitqueue EXCEPT ![r] = list_add_tail(current, @)]
              /\ prio' = pip_inherit(r, list_add_tail(current, waitqueue[r]))
              /\ AfterAcquire(r, FALSE)
              /\ UNCHANGED owner
    /\ UNCHANGED <<sched, waited, owed, current, readyqueue, stacks, age, lifespan, prio_orig>>

pip_restored(r) == [prio EXCEPT ![owner[r]] = prio_orig[current]]

pip_release(r) ==
    /\ CanRelease(r)
    /\ sched = "pip"
    /\ prio' = pip_restored(r)
    /\ owner' = [owner EXCEPT ![r] = NULL]
    /\ IF ~list_empty(waitqueue[r])
         THEN Wake(r, get_highest_prio_wait(waitqueue[r], pip_restored(r)))
         ELSE UNCHANGED <<waitqueue, status, readyqueue>>
    /\ AfterRelease(r)
    /\ UNCHANGED <<sched, waited, owed, current, stacks, age, lifespan, prio_orig>>

\* pip_schedule up to its first pick: n1 is the process first taken from the
\* readyqueue (NULL when current is returned at once or nothing is queued),
\* rq1 the readyqueue it is taken from, stk1 pip_stack at that point.
pip_tentative(g1, g2) ==
    LET None == [n1 |-> NULL, rq1 |-> readyqueue, stk1 |-> pip_stack]
        first(rq, stk) ==
            IF ~(list_empty(rq) /\ list_empty(stk))
              THEN LET rq1 == IF list_empty(rq) THEN drain_add(stk, rq) ELSE rq
                       stk1 == IF list_empty(rq) THEN <<>> ELSE stk
                   IN  [n1 |-> get_highest_prio(rq1, prio), rq1 |-> rq1, stk1 |-> stk1]
              ELSE None
    IN  IF ~SkipCurrent /\ age[current] < lifespan[current]
          THEN IF highest_prio_read(readyqueue, prio, g1) = prio[current]
                 THEN IF list_empty(readyqueue) /\ list_empty(pip_stack)
                        THEN None
                        ELSE first(readyqueue, list_add(current, pip_stack))
                 ELSE IF get_pipstack_prio(pip_stack, prio, g2) = prio[current]
                        THEN first(readyqueue, list_add(current, pip_stack))
                        ELSE first(list_add_tail(current, readyqueue), pip_stack)
          ELSE first(readyqueue, pip_stack)

\* The second drain of pip_schedule walks pcp_stack, not pip_stack: pip_stack
\* keeps its entries and whatever pcp_stack holds goes to the readyqueue.
\* The result carries pcp_stack as well.
pip_pick(g1, g2) ==
    LET Result2(next, rq, stk, pcp) ==
            [next |-> next, rq |-> rq, stk |-> stk, pcp |-> pcp]
        pick_next(rq, stk) ==
            IF ~(list_empty(rq) /\ list_empty(stk))
              THEN LET rq1 == IF list_empty(rq) THEN drain_add(stk, rq) ELSE rq
                       stk1 == IF list_empty(rq) THEN <<>> ELSE stk
                       n1 == get_highest_prio(rq1, prio)
                       rq2 == list_del(n1, rq1)
                   IN  IF ~list_empty(stk1) /\ get_pipstack_prio(stk1, prio, 0) # prio[n1]
                         THEN LET rq3 == list_add(n1, drain_add(pcp_stack, rq2))
                                  n2 == get_highest_prio(rq3, prio)
                              IN  Result2(n2, list_del(n2, rq3), stk1, <<>>)
                         ELSE Result2(n1, rq2, stk1, pcp_stack)
              ELSE Result2(NULL, rq, stk, pcp_stack)
    IN  IF ~SkipCurrent /\ age[current] < lifespan[current]
          THEN IF highest_prio_read(readyqueue, prio, g1) = prio[current]
                 THEN IF list_empty(readyqueue) /\ list_empty(pip_stack)
                        THEN Result2(current, readyqueue, pip_stack, pcp_stack)
                        ELSE pick_next(readyqueue, list_add(current, pip_stack))
                 ELSE IF get_pipstack_prio(pip_stack, prio, g2) = prio[current]
                        THEN pick_next(readyqueue, list_add(current, pip_stack))
                        ELSE pick_next(list_add_tail(current, readyqueue), pip_stack)
          ELSE pick_next(readyqueue, pip_stack)

pip_schedule ==
    /\ pc = "schedule"
    /\ sched = "pip"
    /\ \E g1 \in GarbageOf(readyqueue), g2 \in GarbageOf(pip_stack) :
          LET res == pip_pick(g1, g2)
          IN  /\ readyqueue' = res.rq
              /\ pip_stack' = res.stk
              /\ pcp_stack' = res.pcp
              /\ Dispatch(res.next)
    /\ UNCHANGED <<sched, owner, waitqueue, rr_stack, prio_stack, pa_stack, fields>>

\* ----------------------------------------------------------- specification
Lifespans == 1..MaxLifespan
Prios == 0..MAX_PRIO

Next ==
    \/ \E p \in Procs, pr \in Prios, life \in Lifespans : Fork(p, pr, life)
    \/ Run
    \/ EndTick
    \/ \E r \in Res : fcfs_acquire(r)
    \/ \E r \in Res : fcfs_release(r)
    \/ \E r \in Res : prio_acquire(r)
    \/ \E r \in Res : prio_release(r)
    \/ \E r \in Res : pcp_acquire(r)
    \/ \E r \in Res : pcp_release(r)
    \/ \E r \in Res : pip_acquire(r)
    \/ \E r \in Res : pip_release(r)
    \/ fifo_schedule
    \/ sjf_schedule
    \/ stcf_schedule
    \/ rr_schedule
    \/ prio_schedule
    \/ pa_schedule
    \/ pcp_schedule
    \/ pip_schedule

Spec == Init /\ [][Next]_vars

\* Runs of one policy.
InitPIP == Init /\ sched = "pip"

NextPIP ==
    \/ \E p \in Procs, pr \in Prios, life \in Lifespans : Fork(p, pr, life)
    \/ Run
    \/ EndTick
    \/ \E r \in Res : pip_acquire(r)
    \/ \E r \in Res : pip_release(r)
    \/ pip_schedule

SpecPIP == InitPIP /\ [][NextPIP]_vars

InitPA == Init /\ sched = "pa"

NextPA ==
    \/ \E p \in Procs, pr \in Prios, life \in Lifespans : Fork(p, pr, life)
    \/ Run
    \/ EndTick
    \/ \E r \in Res : prio_acquire(r)
    \/ \E r \in Res : prio_release(r)
    \/ pa_schedule

SpecPA == InitPA /\ [][NextPA]_vars

\* Priority+Aging with arrivals that never end.
NextPAStream ==
    \/ \E p \in Procs, pr \in Prios, life \in Lifespans : Fork(p, pr, life)
    \/ \E p \in Procs, pr \in Prios, life \in Lifespans : Respawn(p, pr, life)
    \/ Run
    \/ EndTick
    \/ \E r \in Res : prio_acquire(r)
    \/ \E r \in Res : prio_release(r)
    \/ pa_schedule

SpecPAStream == InitPA /\ [][NextPAStream]_vars

\* Shortest-time-to-complete-first, with lifespans long enough for a running
\* process to have more left than a newcomer.
LongLifespans == 1..(MaxLifespan + 1)

InitSTCF == Init /\ sched = "stcf"

NextSTCF ==
    \/ \E p \in Procs, pr \in Prios, life \in LongLifespans : Fork(p, pr, life)
    \/ Run
    \/ EndTick
    \/ \E r \in Res : fcfs_acquire(r)
    \/ \E r \in Res : fcfs_release(r)
    \/ stcf_schedule

SpecSTCF == InitSTCF /\ [][NextSTCF]_vars

InitSJF == Init /\ sched = "sjf"

NextSJF ==
    \/ \E p \in Procs, pr \in Prios, life \in LongLifespans : Fork(p, pr, life)
    \/ Run
    \/ EndTick
    \/ \E r \in Res : fcfs_acquire(r)
    \/ \E r \in Res : fcfs_release(r)
    \/ sjf_schedule

SpecSJF == InitSJF /\ [][NextSJF]_vars

InitRR == Init /\ sched = "rr"

NextRR ==
    \/ \E p \in Procs, pr \in Prios, life \in LongLifespans :
          Arrive(p, pr, life, MaxWorkLong)
    \/ Run
    \/ EndTick
    \/ \E r \in Res : fcfs_acquire(r)
    \/ \E r \in Res : fcfs_release(r)
    \/ rr_schedule

SpecRR == InitRR /\ [][NextRR]_vars

InitPRIO == Init /\ sched = "prio"

NextPRIO ==
    \/ \E p \in Procs, pr \in Prios, life \in Lifespans : Fork(p, pr, life)
    \/ Run
    \/ EndTick
    \/ \E r \in Res : prio_acquire(r)
    \/ \E r \in Res : prio_release(r)
    \/ prio_schedule

SpecPRIO == InitPRIO /\ [][NextPRIO]_vars

\* Priority+Aging with the larger workload.
NextPALong ==
    \/ \E p \in Procs, pr \in Prios, life \in Lifespans :
          Arrive(p, pr, life, MaxWorkLong)
    \/ Run
    \/ EndTick
    \/ \E r \in Res : prio_acquire(r)
    \/ \E r \in Res : prio_release(r)
    \/ pa_schedule

SpecPALong == InitPA /\ [][NextPALong]_vars

\* Priority inheritance with the larger workload.
NextPIPLong ==
    \/ \E p \in Procs, pr \in Prios, life \in Lifespans :
          Arrive(p, pr, life, MaxWorkLong)
    \/ Run
    \/ EndTick
    \/ \E r \in Res : pip_acquire(r)
    \/ \E r \in Res : pip_release(r)
    \/ pip_schedule

SpecPIPLong == InitPIP /\ [][NextPIPLong]_vars

\* Priority with the larger workload.
NextPRIOLong ==
    \/ \E p \in Procs, pr \in Prios, life \in Lifespans :
          Arrive(p, pr, life, MaxWorkLong)
    \/ Run
    \/ EndTick
    \/ \E r \in Res : prio_acquire(r)
    \/ \E r \in Res : prio_release(r)
    \/ prio_schedule

SpecPRIOLong == InitPRIO /\ [][NextPRIOLong]_vars

\* ------------------------------------------------------------------ claims
\* How many times p is linked in list q.
Occ(p, q) == Cardinality({i \in DOMAIN q : q[i] = p})

RECURSIVE OccWait(_, _)
OccWait(p, n) == IF n = 0 THEN 0 ELSE Occ(p, waitqueue[n - 1]) + OccWait(p, n - 1)

OccReady(p) == Occ(p, readyqueue)
OccStack(p) == Occ(p, rr_stack) + Occ(p, prio_stack) + Occ(p, pa_stack)
               + Occ(p, pcp_stack) + Occ(p, pip_stack)

\* A step that is a call of the policy's acquire / release / schedule.
AcquireStep == pc = "acquire" /\ call'.op = "acquire"
ReleaseStep == pc = "release" /\ call'.op = "release"
ScheduleStep == pc = "schedule" /\ call'.op = "schedule"

\* C1: acquire(r) by the current process on an unowned r makes it the owner
\* and returns true, leaving every status and every list alone; on an owned r
\* it leaves the owner, blocks the caller, appends it at the tail of r's wait
\* queue and returns false.  An owner only ever changes from none to the
\* caller of a successful acquire, or from the releasing owner to none.
C1_AcquireContract ==
    [][ /\ AcquireStep =>
            LET r == call'.rid
            IN  /\ call'.pid = current
                /\ \A x \in Res \ {r} : owner'[x] = owner[x] /\ waitqueue'[x] = waitqueue[x]
                /\ readyqueue' = readyqueue /\ stacks' = stacks
                /\ IF owner[r] = NULL
                     THEN /\ owner'[r] = current /\ call'.ret = 1
                          /\ status' = status /\ waitqueue' = waitqueue
                     ELSE /\ owner'[r] = owner[r] /\ call'.ret = 0
                          /\ status' = [status EXCEPT ![current] = "PROCESS_BLOCKED"]
                          /\ waitqueue'[r] = Append(waitqueue[r], current)
        /\ \A r \in Res : owner'[r] # owner[r] =>
              \/ /\ owner[r] = NULL /\ owner'[r] = current
                 /\ AcquireStep /\ call'.rid = r /\ call'.ret = 1
              \/ /\ owner[r] = current /\ owner'[r] = NULL
                 /\ ReleaseStep /\ call'.rid = r
      ]_vars

\* A failed acquire has queued its caller behind an earlier waiter.
C1_Witness ==
    /\ call.op = "acquire" /\ call.ret = 0
    /\ Len(waitqueue[call.rid]) >= 2
    /\ waitqueue[call.rid][Len(waitqueue[call.rid])] = call.pid

\* q without its i-th entry.
DropAt(q, i) == [j \in 1..(Len(q) - 1) |-> IF j < i THEN q[j] ELSE q[j + 1]]

\* C2: release(r) by r's owner with waiters removes exactly one waiter from
\* r's wait queue, turns it BLOCKED -> READY and appends it at the tail of the
\* readyqueue; the other waiters stay BLOCKED in the wait queue in their
\* order; with no waiter, no status and no list changes.
C2_ReleaseWakesOne ==
    [][ ReleaseStep =>
          LET r == call'.rid
          IN  /\ owner[r] = current
              /\ \A x \in Res \ {r} : waitqueue'[x] = waitqueue[x]
              /\ stacks' = stacks
              /\ IF waitqueue[r] # <<>>
                   THEN \E i \in DOMAIN waitqueue[r] :
                          LET w == waitqueue[r][i]
                          IN  /\ status[w] = "PROCESS_BLOCKED"
                              /\ status' = [status EXCEPT ![w] = "PROCESS_READY"]
                              /\ waitqueue'[r] = DropAt(waitqueue[r], i)
                              /\ readyqueue' = Append(readyqueue, w)
                   ELSE /\ status' = status
                        /\ readyqueue' = readyqueue
                        /\ waitqueue' = waitqueue
      ]_vars

\* A release has woken one of several waiters: one is READY at the tail of
\* the readyqueue, another still waits.
C2_Witness ==
    /\ call.op = "release"
    /\ waitqueue[call.rid] # <<>>
    /\ readyqueue # <<>>
    /\ status[readyqueue[Len(readyqueue)]] = "PROCESS_READY"
    /\ owner[call.rid] = NULL

\* C3: every process is linked in at most one list; a BLOCKED process is in
\* exactly one wait queue, a READY process in exactly one of readyqueue and
\* the stacks, and the process schedule() returned is in no list.
C3_QueuePartition ==
    \A p \in Procs :
        /\ OccReady(p) + OccStack(p) + OccWait(p, NR_RESOURCES) <= 1
        /\ status[p] = "PROCESS_BLOCKED" => OccWait(p, NR_RESOURCES) = 1
        /\ status[p] = "PROCESS_READY" => OccReady(p) + OccStack(p) = 1
        /\ status[p] = "PROCESS_RUNNING" =>
              OccReady(p) + OccStack(p) + OccWait(p, NR_RESOURCES) = 0
        /\ (call.op = "schedule" /\ call.ret = p) =>
              OccReady(p) + OccStack(p) + OccWait(p, NR_RESOURCES) = 0

\* schedule() has returned a process while a stack and a wait queue hold
\* the others.
C3_Witness ==
    /\ call.op = "schedule" /\ call.ret # NULL
    /\ \E r \in Res : waitqueue[r] # <<>>
    /\ rr_stack \o prio_stack \o pa_stack \o pcp_stack \o pip_stack # <<>>

Forked == {p \in Procs : status[p] # "NONE"}
Owned(p) == {r \in Res : owner[r] = p}

\* C4: under PCP every process that owns a resource runs at MAX_PRIO, also
\* one that owns several and has released some.
C4_OwnerAtCeiling ==
    sched = "pcp" => \A r \in Res : owner[r] # NULL => prio[owner[r]] = MAX_PRIO

\* C5: under PCP and PIP the releasing owner has its original priority when
\* release returns; no step of any policy changes an original priority.
C5_PriorityRestored ==
    [][ /\ (ReleaseStep /\ sched \in {"pcp", "pip"}) =>
              prio'[current] = prio_orig[current]
        /\ \A p \in Forked : prio_orig'[p] = prio_orig[p]
      ]_vars

\* A PCP release has brought its caller down from the ceiling.
C5_Witness ==
    /\ call.op = "release" /\ sched = "pcp"
    /\ prio[call.pid] = prio_orig[call.pid]
    /\ prio_orig[call.pid] < MAX_PRIO

\* C6: under PIP, when acquire(r) fails and the caller's priority is at least
\* that of every process already waiting on r, r's owner has the caller's
\* priority when the call returns.
C6_InheritOnBlock ==
    [][ (AcquireStep /\ sched = "pip" /\ owner[call'.rid] # NULL
         /\ \A w \in Members(waitqueue[call'.rid]) : prio[current] >= prio[w])
        => prio'[owner[call'.rid]] = prio[current]
      ]_vars

\* A failed acquire behind a lower-priority waiter has raised the owner above
\* its original priority to the caller's.
C6_Witness ==
    /\ call.op = "acquire" /\ call.ret = 0 /\ sched = "pip"
    /\ owner[call.rid] # call.pid
    /\ Len(waitqueue[call.rid]) >= 2
    /\ prio[waitqueue[call.rid][1]] < prio[call.pid]
    /\ prio[owner[call.rid]] = prio[call.pid]
    /\ prio_orig[owner[call.rid]] < prio[call.pid]

\* C7: under PIP no acquire lowers any process's priority.
C7_AcquireNeverLowers ==
    [][ (AcquireStep /\ sched = "pip") => \A p \in Procs : prio'[p] >= prio[p] ]_vars

\* C8: every priority stays within [0, MAX_PRIO].
C8_PrioInRange == \A p \in Procs : prio[p] \in 0..MAX_PRIO

\* C9 as claimed: across a pa_schedule call a process selected neither by the
\* call before nor by this one does not lose priority, a process has its
\* original priority exactly when it is selected, and is reset at no other
\* time.
C9_ResetWhenSelected ==
    [][ (ScheduleStep /\ sched = "pa") =>
          \A p \in Forked :
              /\ (p # current /\ p # call'.ret) => prio'[p] >= prio[p]
              /\ p = call'.ret => prio'[p] = prio_orig[p]
              /\ prio'[p] < prio[p] => p = call'.ret
      ]_vars

\* C9 amended: pa_schedule sets the priority of the process that just ran
\* (current on entry) to its original priority, whether or not it selects it
\* again, and lowers no other priority; no other step under Priority+Aging
\* changes a priority.
C9_ResetJustRan ==
    [][ /\ (ScheduleStep /\ sched = "pa") =>
              /\ current # NULL => prio'[current] = prio_orig[current]
              /\ \A p \in Forked \ {current} : prio'[p] >= prio[p]
        /\ (sched = "pa" /\ ~ScheduleStep) =>
              \A p \in Forked : prio'[p] = prio[p]
      ]_vars

\* pa_schedule has picked a process that runs above its original priority and
\* has reset the process that ran before, which it did not pick.
C9_Witness ==
    /\ call.op = "schedule" /\ sched = "pa"
    /\ call.pid # NULL /\ call.ret # NULL /\ call.ret # call.pid
    /\ prio[call.ret] > prio_orig[call.ret]
    /\ prio[call.pid] = prio_orig[call.pid]
    /\ status[call.pid] = "PROCESS_READY"

InReady(p) == p \in Members(readyqueue) \cup Members(pa_stack)

\* A bound on waiting that grows with the priority range and the number of
\* processes that can be ahead.
WaitBound == MAX_PRIO + NProc

\* C10: under Priority+Aging, with arrivals that never end, no process in the
\* readyqueue or on pa_stack is passed over by more than WaitBound
\* pa_schedule calls in a row: it is returned after finitely many calls even
\* while processes of higher original priority stay runnable.
C10_BoundedWait ==
    sched = "pa" => \A p \in Procs : InReady(p) => waited[p] <= WaitBound

\* pa_schedule has returned a process that aged at least two steps above its
\* original priority, ahead of a ready process of higher original priority.
C10_Witness ==
    /\ call.op = "schedule" /\ sched = "pa" /\ call.ret # NULL
    /\ prio[call.ret] >= prio_orig[call.ret] + 2
    /\ \E q \in Procs : InReady(q) /\ prio_orig[q] > prio_orig[call.ret]

FcfsPolicies == {"fifo", "sjf", "stcf", "rr"}
PrioPolicies == {"prio", "pa", "pcp", "pip"}

\* C11: under the FCFS protocol release(r) leaves r unowned and wakes the head
\* of r's wait queue; a wait queue only grows at its tail (a failed acquire)
\* and shrinks at its head (a release), so waiters become READY in the order
\* in which they blocked; a process becomes r's owner only as the caller of
\* a successful acquire(r).
C11_FcfsWakeOrder ==
    [][ (sched \in FcfsPolicies) =>
          /\ ReleaseStep =>
                LET r == call'.rid
                IN  /\ owner'[r] = NULL
                    /\ waitqueue[r] # <<>> =>
                          /\ waitqueue'[r] = Tail(waitqueue[r])
                          /\ status'[Head(waitqueue[r])] = "PROCESS_READY"
                          /\ readyqueue' = Append(readyqueue, Head(waitqueue[r]))
          /\ \A r \in Res :
                /\ waitqueue'[r] # waitqueue[r] =>
                      \/ /\ AcquireStep /\ call'.rid = r /\ call'.ret = 0
                         /\ waitqueue'[r] = Append(waitqueue[r], current)
                      \/ /\ ReleaseStep /\ call'.rid = r
                         /\ waitqueue'[r] = Tail(waitqueue[r])
                /\ (owner'[r] # owner[r] /\ owner'[r] # NULL) =>
                      /\ AcquireStep /\ call'.rid = r /\ call'.ret = 1
                      /\ owner'[r] = current
      ]_vars

\* An FCFS release has woken the first of two waiters: it is READY at the
\* readyqueue's tail, the later waiter still waits, and nobody owns r.
C11_Witness ==
    /\ sched \in FcfsPolicies
    /\ call.op = "release"
    /\ owner[call.rid] = NULL
    /\ Len(waitqueue[call.rid]) = 1
    /\ readyqueue # <<>>
    /\ status[readyqueue[Len(readyqueue)]] = "PROCESS_READY"
    /\ readyqueue[Len(readyqueue)] # call.pid

\* C12: under prio_release, pcp_release and pip_release the waiter woken by
\* release(r) has a priority at least that of every waiter of r at the call,
\* and is the earliest waiter of that priority.
C12_WakeHighest ==
    [][ (ReleaseStep /\ sched \in PrioPolicies /\ waitqueue[call'.rid] # <<>>) =>
          LET wq == waitqueue[call'.rid]
          IN  \E i \in DOMAIN wq :
                /\ waitqueue'[call'.rid] = DropAt(wq, i)
                /\ status'[wq[i]] = "PROCESS_READY"
                /\ readyqueue' = Append(readyqueue, wq[i])
                /\ \A j \in DOMAIN wq : prio[wq[j]] <= prio[wq[i]]
                /\ \A j \in DOMAIN wq : j < i => prio[wq[j]] < prio[wq[i]]
      ]_vars

\* A priority-aware release has woken a waiter of higher priority than the
\* one it left waiting.
C12_Witness ==
    /\ sched \in PrioPolicies
    /\ call.op = "release"
    /\ waitqueue[call.rid] # <<>>
    /\ readyqueue # <<>>
    /\ status[readyqueue[Len(readyqueue)]] = "PROCESS_READY"
    /\ prio[readyqueue[Len(readyqueue)]] > prio[Head(waitqueue[call.rid])]

\* schedule() is called with a current process that can go on running.
Runnable == current # NULL /\ status[current] # "PROCESS_BLOCKED"
            /\ age[current] < lifespan[current]

\* C13: stcf_schedule, called with a runnable current process, returns a
\* process of least remaining time among current and the readyqueue; it
\* returns current, leaving the readyqueue as it was, when no entry has
\* strictly less left; otherwise it returns the shortest entry and current is
\* in the readyqueue.
C13_StcfShortest ==
    [][ (ScheduleStep /\ sched = "stcf" /\ Runnable) =>
          LET ret == call'.ret
          IN  /\ ret \in Members(readyqueue) \cup {current}
              /\ \A q \in Members(readyqueue) \cup {current} :
                    remain_time(ret) <= remain_time(q)
              /\ IF \A q \in Members(readyqueue) : remain_time(q) >= remain_time(current)
                   THEN ret = current /\ readyqueue' = readyqueue
                   ELSE /\ ret \in Members(readyqueue)
                        /\ Members(readyqueue') =
                              (Members(readyqueue) \ {ret}) \cup {current}
                        /\ Len(readyqueue') = Len(readyqueue)
      ]_vars

\* stcf_schedule has preempted a process that ran and is not finished for a
\* strictly shorter one, and the preempted process is in the readyqueue.
C13_Witness ==
    /\ sched = "stcf" /\ call.op = "schedule"
    /\ call.pid # NULL /\ call.ret # NULL /\ call.ret # call.pid
    /\ call.pid \in Members(readyqueue)
    /\ age[call.pid] > 0 /\ age[call.pid] < lifespan[call.pid]
    /\ remain_time(call.ret) < remain_time(call.pid)

\* C14: sjf_schedule returns a runnable current process whatever the
\* readyqueue holds and leaves the readyqueue alone; otherwise it removes and
\* returns the readyqueue entry of least lifespan, the one nearest the head
\* among equals.
C14_SjfPick ==
    [][ (ScheduleStep /\ sched = "sjf") =>
          IF Runnable
            THEN call'.ret = current /\ readyqueue' = readyqueue
            ELSE readyqueue # <<>> =>
                   \E i \in DOMAIN readyqueue :
                     /\ call'.ret = readyqueue[i]
                     /\ readyqueue' = DropAt(readyqueue, i)
                     /\ \A j \in DOMAIN readyqueue :
                           lifespan[readyqueue[j]] >= lifespan[readyqueue[i]]
                     /\ \A j \in DOMAIN readyqueue :
                           j < i => lifespan[readyqueue[j]] > lifespan[readyqueue[i]]
      ]_vars

\* sjf_schedule has passed over the head of the readyqueue for a shorter job
\* behind it: neither has run, so they queue in arrival order.
C14_Witness ==
    /\ sched = "sjf" /\ call.op = "schedule"
    /\ call.ret # NULL /\ call.ret # call.pid
    /\ readyqueue # <<>>
    /\ age[call.ret] = 0 /\ age[Head(readyqueue)] = 0
    /\ Head(readyqueue) < call.ret
    /\ lifespan[Head(readyqueue)] > lifespan[call.ret]

\* C15: rr_schedule picks no process again while a process that was in the
\* readyqueue or on rr_stack when it was last picked still waits for its
\* turn (owed holds those processes); and, called with an empty readyqueue, it moves all of rr_stack (the
\* current process included, when it goes there) into the readyqueue, the
\* one put there first in front, so that rr_stack is empty at the pick.
C15_RoundRobinTurns ==
    [][ (ScheduleStep /\ sched = "rr") =>
          LET stk0 == IF Runnable THEN <<current>> \o rr_stack ELSE rr_stack
          IN  /\ call'.ret # NULL => owed[call'.ret] = {}
              /\ (readyqueue = <<>> /\ stk0 # <<>>) =>
                    /\ rr_stack' = <<>>
                    /\ <<call'.ret>> \o readyqueue' = Reverse(stk0)
      ]_vars

\* The auxiliary collection of policy s among the five stacks given.
AuxOf(s, rr, pr, pa, pcp, pip) ==
    CASE s = "rr" -> rr
      [] s = "prio" -> pr
      [] s = "pa" -> pa
      [] s = "pcp" -> pcp
      [] s = "pip" -> pip
      [] OTHER -> <<>>

\* C16: under every policy schedule() returns no process only when current
\* is absent, blocked or finished and the readyqueue and the policy's
\* auxiliary collection are both empty; and a runnable current process that
\* is alone (both collections empty) is returned, both collections staying
\* empty.
C16_IdleOnlyWhenNothingRunnable ==
    [][ ScheduleStep =>
          LET aux == AuxOf(sched, rr_stack, prio_stack, pa_stack, pcp_stack, pip_stack)
              aux1 == AuxOf(sched, rr_stack', prio_stack', pa_stack', pcp_stack', pip_stack')
          IN  /\ call'.ret = NULL =>
                    ~Runnable /\ readyqueue = <<>> /\ aux = <<>>
              /\ (Runnable /\ readyqueue = <<>> /\ aux = <<>>) =>
                    call'.ret = current /\ readyqueue' = <<>> /\ aux1 = <<>>
      ]_vars

\* schedule() has answered "no process" with a blocked current process and
\* nothing queued: every live process waits for a resource.
C16_Witness ==
    /\ call.op = "schedule" /\ call.ret = NULL
    /\ call.pid # NULL /\ status[call.pid] = "PROCESS_BLOCKED"
    /\ readyqueue = <<>>
    /\ rr_stack \o prio_stack \o pa_stack \o pcp_stack \o pip_stack = <<>>

\* Position of p in list q (0 when p is not in q).
IndexOf(p, q) == IF p \in Members(q) THEN CHOOSE i \in DOMAIN q : q[i] = p ELSE 0

\* C17: in prio_schedule, pa_schedule, pcp_schedule and pip_schedule, when
\* current is runnable and a readyqueue process has a strictly higher
\* priority (as the function compares them: prio after the call), current is
\* in the readyqueue on return, behind every process that was there and
\* still is, and is not in the auxiliary collection.
C17_PreemptedToTail ==
    [][ (ScheduleStep /\ sched \in PrioPolicies /\ Runnable
         /\ \E q \in Members(readyqueue) : prio'[q] > prio'[current]) =>
          LET aux1 == AuxOf(sched, rr_stack', prio_stack', pa_stack', pcp_stack', pip_stack')
          IN  /\ current \in Members(readyqueue')
              /\ current \notin Members(aux1)
              /\ \A q \in Members(readyqueue) \cap Members(readyqueue') :
                    IndexOf(q, readyqueue') < IndexOf(current, readyqueue')
      ]_vars

\* C18: under Priority, Priority+Aging and PCP, when schedule() returns a
\* process, no process left in the readyqueue or in the policy's auxiliary
\* collection has a strictly greater priority.
C18_ReturnsHighest ==
    [][ (ScheduleStep /\ sched \in {"prio", "pa", "pcp"} /\ call'.ret # NULL) =>
          LET aux1 == AuxOf(sched, rr_stack', prio_stack', pa_stack', pcp_stack', pip_stack')
          IN  \A q \in Members(readyqueue') \cup Members(aux1) :
                prio'[q] <= prio'[call'.ret]
      ]_vars

\* C19: when pip_schedule's first pick differs in priority from the first
\* entry of pip_stack, pip_stack is empty on return and the process returned
\* has the greatest priority among those that were in the readyqueue or on
\* pip_stack at the pick.  (g1, g2: what the reads of an empty list gave in
\* this call.)
C19_PipFlush ==
    [][ (ScheduleStep /\ sched = "pip") =>
          \A g1 \in GarbageOf(readyqueue), g2 \in GarbageOf(pip_stack) :
            LET t == pip_tentative(g1, g2)
                res == pip_pick(g1, g2)
            IN  (/\ res.next = call'.ret /\ res.rq = readyqueue' /\ res.stk = pip_stack'
                 /\ t.n1 # NULL /\ t.stk1 # <<>>
                 /\ prio[list_first_entry(t.stk1)] # prio[t.n1]) =>
                  /\ pip_stack' = <<>>
                  /\ \A q \in Members(t.rq1) \cup Members(t.stk1) :
                        prio[q] <= prio[call'.ret]
      ]_vars

\* The runnable processes at a prio_schedule call, and those of greatest
\* priority among them.
ReadyNow == Members(readyqueue) \cup Members(prio_stack)
            \cup (IF Runnable THEN {current} ELSE {})
Cohort == {q \in ReadyNow : \A x \in ReadyNow : prio[x] <= prio[q]}

\* C20: under the Priority policy, while two or more runnable processes
\* share the highest priority and the process that ran neither blocked nor
\* finished, prio_schedule returns one of them, and never one that still
\* owes a turn to another of them: between two picks of the same process
\* every other process of the highest priority is picked, and no process of
\* lower priority is.
C20_PrioCyclic ==
    [][ (ScheduleStep /\ sched = "prio" /\ (current = NULL \/ Runnable)
         /\ Cardinality(Cohort) >= 2) =>
          /\ call'.ret \in Cohort
          /\ owed[call'.ret] = {}
      ]_vars

\* prio_schedule has come back to a process after every other process of
\* its priority had a turn, a process of lower priority still waiting.
C20_Witness ==
    /\ sched = "prio" /\ call.op = "schedule" /\ call.ret # NULL
    /\ age[call.ret] > 0
    /\ Cardinality(owed[call.ret]) >= 1
    /\ \A q \in owed[call.ret] : age[q] > 0
    /\ \E q \in Members(readyqueue) : prio[q] < prio[call.ret]

\* C21: under PIP the owner of a resource has a priority at least that of
\* every process waiting for the resource.
C21_OwnerDominatesWaiters ==
    sched = "pip" =>
        \A r \in Res :
            owner[r] # NULL =>
                \A w \in Members(waitqueue[r]) : prio[owner[r]] >= prio[w]

\* The priorities a schedule function of the priority family compares.
SchedPrio == IF sched = "pa" THEN pa_prio ELSE prio

\* C22: stcf_schedule and the schedule functions of the priority family,
\* called with a runnable current process, find the readyqueue non-empty when
\* they read its shortest or highest-priority entry, and, when that entry's
\* priority differs from current's, find the policy's stack non-empty when
\* they read the priority of its head.
C22_NoEmptyRead ==
    [][ (ScheduleStep /\ sched \in {"stcf"} \cup PrioPolicies /\ Runnable) =>
          /\ ~list_empty(readyqueue)
          /\ (/\ sched \in PrioPolicies
              /\ SchedPrio[get_highest_prio(readyqueue, SchedPrio)]
                    # SchedPrio[current]) =>
                ~list_empty(AuxOf(sched, rr_stack, prio_stack, pa_stack,
                                  pcp_stack, pip_stack))
      ]_vars

=============================================================================
